---- MODULE Spec2Model ----
(***************************************************************************)
(* Bounded priority queue (BPQueue) of mywheel-cpp over intrusive,         *)
(* sentinel-headed circular doubly linked lists (Dllink / Dllist).         *)
(*                                                                         *)
(* Link memory is modelled as it is in the source: every Dllink (bucket    *)
(* heads, the queue's built-in sentinel, the caller's items) has a next    *)
(* and a prev pointer; pointers are addresses (integers).  The template    *)
(* is instantiated with a 16 bit key type (Int = int16_t, UInt = uint16_t).*)
(***************************************************************************)
EXTENDS Integers, Sequences, FiniteSets, TLC

\* ---------------------------------------------------------------- bounds
NumItems == 2       \* number of caller-owned Dllink items
MaxNegA  == 1       \* the constructor is given a lower bound a >= -MaxNegA
MaxA     == 2       \* the constructor is given a lower bound a <= MaxA
MaxSpan  == 3       \* largest number of keys b - a + 1 of a queue
NumLists == 2       \* number of Dllists in the scenario without a BPQueue
MaxParts == 8       \* largest num_parts of a Robin
MaxLen   == 3       \* largest size of the vector of a ShiftArray

\* UInt = std::make_unsigned_t<Int>; arithmetic on UInt is modulo 2^16
UIntModulus == 65536

\* ------------------------------------------------------------- addresses
Items     == 1..NumItems            \* the caller's nodes
sentinel  == 0                      \* BPQueue::sentinel
head(i)   == -(i + 1)               \* &bucket[i].head
nullptr   == -1000                  \* "no node" in the call record

VARIABLES
    a, b,       \* the constructor's arguments
    offset,     \* BPQueue::offset
    high,       \* BPQueue::high
    max,        \* BPQueue::max
    next,       \* Dllink::next of every link
    prev,       \* Dllink::prev of every link
    key,        \* Dllink::data.second of every item
    queued,     \* caller's bookkeeping: items appended and not yet removed
    last,       \* the call that produced this state and its return value
    log,        \* scenario history: insertions <<item, key, side>>
    popped,     \* scenario history: items returned by popleft, in order
    staged,     \* scenario history: <<k>> after set_key(item, k), else <<>>
    snap,       \* scenario history: what the caller saw before a detach
    q2,         \* a second BPQueue over the same items (two-queue scenario)
    robin,      \* a fun::Robin and the loop over one of its exclude() ranges
    arr         \* a ShiftArray and the last access to it

others == <<q2, robin, arr>>
more == <<snap, q2, robin, arr>>
hist == <<log, popped, staged, snap, q2, robin, arr>>
vars == <<a, b, offset, high, max, next, prev, key, queued, last, log, popped, staged,
          snap, q2, robin, arr>>

ToUInt(x) == x % UIntModulus
\* Int(u): conversion of a UInt to the signed type of the same width
ToInt(u)  == IF u >= UIntModulus \div 2 THEN u - UIntModulus ELSE u

\* ------------------------------------------------------------ Dllink
\* A memory M is a record [next, prev, key, max, fail, ub]: the links of all
\* nodes, the keys of the items and the queue's max field; fail is set when an
\* assert of a checked build has failed (the call stops there), ub when the
\* bucket vector has been indexed past its end (undefined behaviour).
Ok(M) == ~M.fail /\ ~M.ub

is_locked(M, n) == M.next[n] = n

\* variant: Dllink::detach without its assert
Dllink_detach_unchecked(M, n) ==
    LET nn == M.next[n]
        p  == M.prev[n]
        M1 == [M  EXCEPT !.next[p] = nn]
    IN  [M1 EXCEPT !.prev[nn] = p]
\* variant: Dllink::detach that also resets the node's own links
Dllink_detach_reset(M, n) ==
    LET nn == M.next[n]
        p  == M.prev[n]
        M1 == [M  EXCEPT !.next[p] = nn]
        M2 == [M1 EXCEPT !.prev[nn] = p]
    IN  IF is_locked(M, n) THEN [M EXCEPT !.fail = TRUE]
        ELSE [M2 EXCEPT !.next[n] = n, !.prev[n] = n]
\* variant: Dllink::detach that leaves the node locked
Dllink_detach_lock(M, n) ==
    LET nn == M.next[n]
        p  == M.prev[n]
        M1 == [M  EXCEPT !.next[p] = nn]
        M2 == [M1 EXCEPT !.prev[nn] = p]
    IN  IF is_locked(M, n) THEN [M EXCEPT !.fail = TRUE]
        ELSE [M2 EXCEPT !.next[n] = n]
\* Dllink::detach: assert(!is_locked()); p->next = n; n->prev = p
\* (the node's own links are kept)
Dllink_detach(M, n) ==
    LET nn == M.next[n]
        p  == M.prev[n]
        M1 == [M  EXCEPT !.next[p] = nn]
    IN  IF is_locked(M, n) THEN [M EXCEPT !.fail = TRUE]
        ELSE [M1 EXCEPT !.prev[nn] = p]

\* variant: attach that leaves the old successor's prev as it was
Dllink_attach_oneway(M, at, node) ==
    LET M1 == [M  EXCEPT !.next[node] = M.next[at]]
        M3 == [M1 EXCEPT !.next[at] = node]
    IN  [M3 EXCEPT !.prev[node] = at]
\* Dllink::attach: insert node right after link `at`
Dllink_attach(M, at, node) ==
    LET M1 == [M  EXCEPT !.next[node] = M.next[at]]
        M2 == [M1 EXCEPT !.prev[M1.next[at]] = node]
        M3 == [M2 EXCEPT !.next[at] = node]
    IN  [M3 EXCEPT !.prev[node] = at]

\* ------------------------------------------------------------ Dllist
Dllist_is_empty(M, i)         == M.next[head(i)] = head(i)
Dllist_clear(M, i)            == [M EXCEPT !.next[head(i)] = head(i),
                                           !.prev[head(i)] = head(i)]
Dllist_appendleft(M, i, node) == Dllink_attach(M, head(i), node)
Dllist_append(M, i, node)     == Dllink_attach(M, M.prev[head(i)], node)
Dllist_begin(M, i)            == M.next[head(i)]
Dllist_end(M, i)              == head(i)
\* Dllist::popleft, Dllist::pop: the pair <<memory after, node returned>>
Dllist_popleft(M, i) ==
    LET res == M.next[head(i)] IN <<Dllink_detach(M, res), res>>
\* variant: pop that takes the node after the head
Dllist_pop_front(M, i) ==
    LET res == M.next[head(i)] IN <<Dllink_detach(M, res), res>>
Dllist_pop(M, i) ==
    LET res == M.prev[head(i)] IN <<Dllink_detach(M, res), res>>

\* ------------------------------------------------------------ BPQueue
Mem == [next |-> next, prev |-> prev, key |-> key, max |-> max,
        fail |-> FALSE, ub |-> FALSE]

\* variant: emptiness read off the max bucket's list instead of max
is_empty_by_list(M) == M.next[head(M.max)] = head(M.max)
is_empty(M) == M.max = 0
get_max(M)  == offset + ToInt(M.max)

\* while (bucket[max].is_empty()) max -= 1;   (max is unsigned: 0 - 1 wraps)
RECURSIVE ScanDown(_)
ScanDown(M) ==
    IF ~Ok(M) THEN M
    ELSE IF M.max \notin 0..high THEN [M EXCEPT !.ub = TRUE]
    ELSE IF Dllist_is_empty(M, M.max)
    THEN ScanDown([M EXCEPT !.max = ToUInt(M.max - 1)])
    ELSE M

\* variant: set_key that also raises max to the new key
set_key_raise(M, it, gain) ==
    [M EXCEPT !.key[it] = ToUInt(gain - offset),
              !.max = IF M.max < ToUInt(gain - offset)
                      THEN ToUInt(gain - offset) ELSE M.max]
set_key(M, it, gain) == [M EXCEPT !.key[it] = ToUInt(gain - offset)]

\* assert(k > offset); the bucket index is not checked against high
appendleft(M, it, k) ==
    LET M1 == [M EXCEPT !.key[it] = ToUInt(k - offset)]
        M2 == IF M1.max < M1.key[it] THEN [M1 EXCEPT !.max = M1.key[it]] ELSE M1
    IN  IF ~(k > offset) THEN [M EXCEPT !.fail = TRUE]
        ELSE IF M2.key[it] \notin 0..high THEN [M2 EXCEPT !.ub = TRUE]
        ELSE Dllist_appendleft(M2, M2.key[it], it)

\* variant: append that inserts at the front of the bucket
append_front(M, it, k) ==
    LET M1 == [M EXCEPT !.key[it] = ToUInt(k - offset)]
        M2 == IF M1.max < M1.key[it] THEN [M1 EXCEPT !.max = M1.key[it]] ELSE M1
    IN  Dllist_appendleft(M2, M2.key[it], it)
\* variant: append that leaves max as it is
append_nomax(M, it, k) ==
    LET M1 == [M EXCEPT !.key[it] = ToUInt(k - offset)]
    IN  Dllist_append(M1, M1.key[it], it)
append(M, it, k) ==
    LET M1 == [M EXCEPT !.key[it] = ToUInt(k - offset)]
        M2 == IF M1.max < M1.key[it] THEN [M1 EXCEPT !.max = M1.key[it]] ELSE M1
    IN  IF ~(k > offset) THEN [M EXCEPT !.fail = TRUE]
        ELSE IF M2.key[it] \notin 0..high THEN [M2 EXCEPT !.ub = TRUE]
        ELSE Dllist_append(M2, M2.key[it], it)

appendleft_direct(M, it) ==
    IF ~(ToInt(M.key[it]) > offset) THEN [M EXCEPT !.fail = TRUE]
    ELSE appendleft(M, it, ToInt(M.key[it]))

\* variant: popleft that returns the front node without unlinking it
popleft_keep(M) == <<M, M.next[head(M.max)]>>
\* variant: popleft that takes the node at the back of bucket[max]
popleft_back(M) ==
    LET r == Dllist_pop(M, M.max) IN <<ScanDown(r[1]), r[2]>>
\* the pair <<memory after, node returned>>
popleft(M) ==
    LET r == Dllist_popleft(M, M.max) IN <<ScanDown(r[1]), r[2]>>

\* variant: decrease_key that empties the node's bucket to take the node out
decrease_key_clearsrc(M, it, delta) ==
    LET M1 == Dllist_clear(M, M.key[it])
        M2 == [M1 EXCEPT !.key[it] = ToUInt(M1.key[it] - delta)]
        M3 == Dllist_append(M2, M2.key[it], it)
    IN  IF M3.max < M3.key[it]
        THEN [M3 EXCEPT !.max = M3.key[it]]
        ELSE ScanDown(M3)
\* variant: decrease_key without the downward scan of max
decrease_key_noscan(M, it, delta) ==
    LET M1 == Dllink_detach(M, it)
        M2 == [M1 EXCEPT !.key[it] = ToUInt(M1.key[it] - delta)]
        M3 == Dllist_append(M2, M2.key[it], it)
    IN  IF M3.max < M3.key[it] THEN [M3 EXCEPT !.max = M3.key[it]] ELSE M3
\* variant: decrease_key that reinserts at the front
decrease_key_lifo(M, it, delta) ==
    LET M1 == Dllink_detach(M, it)
        M2 == [M1 EXCEPT !.key[it] = ToUInt(M1.key[it] - delta)]
        M3 == Dllist_appendleft(M2, M2.key[it], it)
    IN  IF M3.max < M3.key[it]
        THEN [M3 EXCEPT !.max = M3.key[it]]
        ELSE ScanDown(M3)
\* variant: decrease_key without assert(key > 0)
decrease_key_nolow(M, it, delta) ==
    LET M1 == Dllink_detach(M, it)
        M2 == [M1 EXCEPT !.key[it] = ToUInt(M1.key[it] - delta)]
        M3 == Dllist_append(M2, M2.key[it], it)
    IN  IF M1.fail THEN M1
        ELSE IF ~(M2.key[it] <= high) THEN [M2 EXCEPT !.fail = TRUE]
        ELSE IF M3.max < M3.key[it]
        THEN [M3 EXCEPT !.max = M3.key[it]]
        ELSE ScanDown(M3)
decrease_key(M, it, delta) ==
    LET M1 == Dllink_detach(M, it)
        M2 == [M1 EXCEPT !.key[it] = ToUInt(M1.key[it] - delta)]
        M3 == Dllist_append(M2, M2.key[it], it)
    IN  IF M1.fail THEN M1
        ELSE IF ~(M2.key[it] > 0) \/ ~(M2.key[it] <= high) THEN [M2 EXCEPT !.fail = TRUE]
        ELSE IF M3.max < M3.key[it]
        THEN [M3 EXCEPT !.max = M3.key[it]]
        ELSE ScanDown(M3)

\* variant: increase_key that reinserts before it updates the stored key
increase_key_late(M, it, delta) ==
    LET M1 == Dllink_detach(M, it)
        M2 == Dllist_appendleft(M1, M1.key[it], it)
        M3 == [M2 EXCEPT !.key[it] = ToUInt(M2.key[it] + delta)]
    IN  IF M3.max < M3.key[it] THEN [M3 EXCEPT !.max = M3.key[it]] ELSE M3
\* variant: increase_key that reinserts at the back
increase_key_fifo(M, it, delta) ==
    LET M1 == Dllink_detach(M, it)
        M2 == [M1 EXCEPT !.key[it] = ToUInt(M1.key[it] + delta)]
        M3 == Dllist_append(M2, M2.key[it], it)
    IN  IF M3.max < M3.key[it] THEN [M3 EXCEPT !.max = M3.key[it]] ELSE M3
increase_key(M, it, delta) ==
    LET M1 == Dllink_detach(M, it)
        M2 == [M1 EXCEPT !.key[it] = ToUInt(M1.key[it] + delta)]
        M3 == Dllist_appendleft(M2, M2.key[it], it)
    IN  IF M1.fail THEN M1
        ELSE IF ~(M2.key[it] > 0) \/ ~(M2.key[it] <= high) THEN [M2 EXCEPT !.fail = TRUE]
        ELSE IF M3.max < M3.key[it] THEN [M3 EXCEPT !.max = M3.key[it]] ELSE M3

\* variant: modify_key without the is_locked test
modify_key_nolock(M, it, delta) ==
    IF delta > 0 THEN increase_key(M, it, ToUInt(delta))
    ELSE IF delta < 0 THEN decrease_key(M, it, ToUInt(-delta))
    ELSE M
\* variant: modify_key that sends delta = 0 to increase_key as well
modify_key_nonneg(M, it, delta) ==
    IF is_locked(M, it) THEN M
    ELSE IF delta >= 0 THEN increase_key(M, it, ToUInt(delta))
    ELSE decrease_key(M, it, ToUInt(-delta))
modify_key(M, it, delta) ==
    IF is_locked(M, it) THEN M
    ELSE IF delta > 0 THEN increase_key(M, it, ToUInt(delta))
    ELSE IF delta < 0 THEN decrease_key(M, it, ToUInt(-delta))
    ELSE M

\* variant: detach that unlinks the front node of the node's bucket
detach_front(M, it) == ScanDown(Dllink_detach(M, M.next[head(M.key[it])]))
\* variant: detach without the downward scan of max
detach_noscan(M, it) == Dllink_detach(M, it)
detach(M, it) == ScanDown(Dllink_detach(M, it))

\* variant: clear that empties the highest occupied bucket only
clear_top(M) ==
    IF M.max > 0 THEN [Dllist_clear(M, M.max) EXCEPT !.max = 0] ELSE M
\* variant: clear that goes on through bucket 0
RECURSIVE clear_all(_)
clear_all(M) ==
    IF M.max > 0
    THEN clear_all([Dllist_clear(M, M.max) EXCEPT !.max = M.max - 1])
    ELSE Dllist_clear(M, 0)
RECURSIVE clear(_)
clear(M) ==
    IF M.max > 0
    THEN clear([Dllist_clear(M, M.max) EXCEPT !.max = M.max - 1])
    ELSE M

\* ------------------------------------------------------------ BpqIterator
\* An iterator is the record [curkey, curitem]; curitem is the DllIterator's cur.
\* variant: an iterator that starts at the back of the bucket list
BpqIterator_back(M, curkey) == [curkey |-> curkey, curitem |-> M.prev[head(curkey)]]
BpqIterator(M, curkey) == [curkey |-> curkey, curitem |-> Dllist_begin(M, curkey)]

\* variant: begin() that starts at the highest bucket instead of bucket[max]
begin_at_high(M) == BpqIterator(M, high)
begin(M) == BpqIterator(M, M.max)
end(M)   == BpqIterator(M, 0)

\* operator== compares the positions only
IterEq(x, y) == x.curitem = y.curitem

\* do { curkey -= 1; } while (curlist().is_empty());
RECURSIVE IterDown(_, _)
IterDown(M, k) ==
    LET k1 == ToUInt(k - 1)
    IN  IF k1 \in 0..high /\ Dllist_is_empty(M, k1) THEN IterDown(M, k1) ELSE k1

\* while (curitem == curlist().end()) { do..while; curitem = curlist().begin(); }
RECURSIVE IterSettle(_, _)
IterSettle(M, itr) ==
    IF itr.curkey \in 0..high /\ itr.curitem = Dllist_end(M, itr.curkey)
    THEN LET k == IterDown(M, itr.curkey)
         IN  IF k \in 0..high THEN IterSettle(M, BpqIterator(M, k))
             ELSE [curkey |-> k, curitem |-> nullptr]
    ELSE itr

\* variant: operator++ that only advances inside the current bucket list
IterInc_inlist(M, itr) == [itr EXCEPT !.curitem = M.next[itr.curitem]]
\* BpqIterator::operator++
IterInc(M, itr) == IterSettle(M, [itr EXCEPT !.curitem = M.next[itr.curitem]])

\* the nodes visited by  for (it = begin(); it != end(); ++it), at most
\* `fuel` of them
RECURSIVE IterFrom(_, _, _)
IterFrom(M, itr, fuel) ==
    IF fuel = 0 \/ itr.curitem \notin DOMAIN M.next \/ IterEq(itr, end(M))
    THEN <<>>
    ELSE <<itr.curitem>> \o IterFrom(M, IterInc(M, itr), fuel - 1)
IterSeq(M) == IterFrom(M, begin(M), NumItems + 2)

\* ------------------------------------------------------------ observers
\* the nodes of bucket i, front to back, read along the next pointers
RECURSIVE Walk(_, _, _, _)
Walk(nx, stop, cur, fuel) ==
    IF cur = stop \/ fuel = 0 THEN <<>>
    ELSE <<cur>> \o Walk(nx, stop, nx[cur], fuel - 1)
Bucket(M, i) == Walk(M.next, head(i), M.next[head(i)], NumItems + 2)

Range(f) == {f[i] : i \in DOMAIN f}
Remove(seq, n) == SelectSeq(seq, LAMBDA x : x # n)
SetMax(S) == CHOOSE x \in S : \A y \in S : y <= x
\* index of the highest bucket that holds a node, 0 if there is none
HighestNonEmpty(M) == SetMax({0} \cup {i \in 1..high : Bucket(M, i) # <<>>})
\* position of x in seq, 0 if absent
Pos(seq, x) == IF x \in Range(seq) THEN CHOOSE i \in 1..Len(seq) : seq[i] = x ELSE 0

\* the nodes returned by calling popleft() until is_empty()
RECURSIVE Drain(_, _)
Drain(M, fuel) ==
    IF is_empty(M) \/ fuel = 0 THEN <<>>
    ELSE LET r == popleft(M) IN <<r[2]>> \o Drain(r[1], fuel - 1)

\* ------------------------------------------------------------ the calls
Store(M) ==
    /\ next' = M.next
    /\ prev' = M.prev
    /\ key'  = M.key
    /\ max'  = M.max
    /\ UNCHANGED <<a, b, offset, high>>

\* the record of a call: st is "ok" when it returned, "abort" when an assert
\* failed in it, "undefined" when its behaviour was undefined
Call(o, it, r) == [op |-> o, it |-> it, ret |-> r, st |-> "ok"]
Fail(o, it, how) == [op |-> o, it |-> it, ret |-> nullptr, st |-> how]

\* variant: a constructor that leaves bucket 0 without the sentinel
BPQueue_nosentinel(lo, hi) ==
    LET hs == {head(i) : i \in 0..(ToUInt(hi - lo) + 1)}
        L  == hs \cup {sentinel} \cup Items
    IN  [offset |-> lo - 1,
         high   |-> ToUInt(hi - (lo - 1)),
         mem    |-> [next |-> [n \in L |-> n], prev |-> [n \in L |-> n],
                     key |-> [n \in Items \cup {sentinel} |-> 0], max |-> 0,
                     fail |-> FALSE, ub |-> FALSE]]
\* BPQueue::BPQueue(a, b), with fresh items: every Dllink starts with
\* next = prev = this and every key with 0; the constructor sizes the bucket
\* vector to (b - a) + 2 lists and puts the sentinel into bucket 0.
BPQueue(lo, hi) ==
    LET hs == {head(i) : i \in 0..(ToUInt(hi - lo) + 1)}
        L  == hs \cup {sentinel} \cup Items
        M0 == [next |-> [n \in L |-> n], prev |-> [n \in L |-> n],
               key |-> [n \in Items \cup {sentinel} |-> 0], max |-> 0,
               fail |-> FALSE, ub |-> FALSE]
    IN  [offset |-> lo - 1,
         high   |-> ToUInt(hi - (lo - 1)),
         mem    |-> Dllist_appendleft(M0, 0, sentinel)]

Init ==
    /\ a \in (-MaxNegA)..MaxA
    /\ b \in a..(a + MaxSpan - 1)
    /\ LET q == BPQueue(a, b) IN
        /\ offset = q.offset
        /\ high = q.high
        /\ max = q.mem.max
        /\ next = q.mem.next
        /\ prev = q.mem.prev
        /\ key = q.mem.key
    /\ queued = {}
    /\ last = Call("construct", nullptr, nullptr)
    /\ log = <<>>
    /\ popped = <<>>
    /\ staged = [n \in Items |-> <<>>]
    /\ snap = <<>>
    /\ q2 = [max |-> 0, queued |-> {}, want |-> <<>>]
    /\ robin = <<>>
    /\ arr = <<>>

\* no assertion has failed and no undefined behaviour has happened
alive == last.st = "ok"

Keys == (offset + 1)..(offset + high)      \* the key range [a, b]

CallAppend(it, k) ==
    /\ alive
    /\ it \in Items \ queued
    /\ k \in Keys
    /\ Store(append(Mem, it, k))
    /\ queued' = queued \cup {it}
    /\ last' = Call("append", it, nullptr)

CallAppendleft(it, k) ==
    /\ alive
    /\ it \in Items \ queued
    /\ k \in Keys
    /\ Store(appendleft(Mem, it, k))
    /\ queued' = queued \cup {it}
    /\ last' = Call("appendleft", it, nullptr)

CallPopleft ==
    /\ alive
    /\ queued # {}
    /\ LET r == popleft(Mem) IN
        /\ Store(r[1])
        /\ queued' = queued \ {r[2]}
        /\ last' = Call("popleft", nullptr, r[2])

CallIncreaseKey(it, delta) ==
    /\ alive
    /\ it \in queued
    /\ delta > 0
    /\ key[it] + delta <= high
    /\ Store(increase_key(Mem, it, delta))
    /\ UNCHANGED queued
    /\ last' = Call("increase_key", it, nullptr)

CallDecreaseKey(it, delta) ==
    /\ alive
    /\ it \in queued
    /\ delta > 0
    /\ key[it] - delta > 0
    /\ Store(decrease_key(Mem, it, delta))
    /\ UNCHANGED queued
    /\ last' = Call("decrease_key", it, nullptr)

CallModifyKey(it, delta) ==
    /\ alive
    /\ it \in queued
    /\ key[it] + delta > 0
    /\ key[it] + delta <= high
    /\ Store(modify_key(Mem, it, delta))
    /\ UNCHANGED queued
    /\ last' = Call("modify_key", it, nullptr)

CallDetach(it) ==
    /\ alive
    /\ it \in queued
    /\ Store(detach(Mem, it))
    /\ queued' = queued \ {it}
    /\ last' = Call("detach", it, nullptr)

CallClear ==
    /\ alive
    /\ Store(clear(Mem))
    /\ queued' = {}
    /\ last' = Call("clear", nullptr, nullptr)

Deltas == 1..MaxSpan

OpAppend      == \E it \in Items, k \in (-MaxNegA)..(MaxA + MaxSpan) : CallAppend(it, k) /\ UNCHANGED hist
OpAppendleft  == \E it \in Items, k \in (-MaxNegA)..(MaxA + MaxSpan) : CallAppendleft(it, k) /\ UNCHANGED hist
OpPopleft     == CallPopleft /\ UNCHANGED hist
OpIncreaseKey == \E it \in Items, d \in Deltas : CallIncreaseKey(it, d) /\ UNCHANGED hist
OpDecreaseKey == \E it \in Items, d \in Deltas : CallDecreaseKey(it, d) /\ UNCHANGED hist
OpModifyKey   == \E it \in Items, d \in (-MaxSpan)..MaxSpan : CallModifyKey(it, d) /\ UNCHANGED hist
OpDetach      == \E it \in Items : CallDetach(it) /\ UNCHANGED hist
OpClear       == CallClear /\ UNCHANGED hist

Next ==
    \/ OpAppend
    \/ OpAppendleft
    \/ OpPopleft
    \/ OpIncreaseKey
    \/ OpDecreaseKey
    \/ OpModifyKey
    \/ OpDetach
    \/ OpClear

Spec == Init /\ [][Next]_vars

\* ------------------------------------------------------------ fill, then drain
\* Scenario: append/appendleft calls on distinct items, then popleft() until
\* the queue is empty; log and popped record what was inserted and returned.
FillAppend ==
    \E it \in Items, k \in (-MaxNegA)..(MaxA + MaxSpan) :
        /\ popped = <<>>
        /\ CallAppend(it, k)
        /\ log' = Append(log, <<it, k, "append">>)
        /\ UNCHANGED <<popped, staged, more>>

FillAppendleft ==
    \E it \in Items, k \in (-MaxNegA)..(MaxA + MaxSpan) :
        /\ popped = <<>>
        /\ CallAppendleft(it, k)
        /\ log' = Append(log, <<it, k, "appendleft">>)
        /\ UNCHANGED <<popped, staged, more>>

DrainPopleft ==
    /\ CallPopleft
    /\ popped' = Append(popped, last'.ret)
    /\ UNCHANGED <<log, staged, more>>

NextFill ==
    \/ FillAppend
    \/ FillAppendleft
    \/ DrainPopleft

SpecFill == Init /\ [][NextFill]_vars

LogPos(n)  == CHOOSE i \in 1..Len(log) : log[i][1] = n
LogKey(n)  == log[LogPos(n)][2]
LogSide(n) == log[LogPos(n)][3]

\* ------------------------------------------------------------ pre-staged keys
\* Scenario: set_key(item, k) on a free item, then appendleft_direct(item), in
\* a checked build (assert aborts).  staged[item] = <<k>> from set_key(item, k)
\* until the item leaves the queue again.
CallSetKey(it, k) ==
    /\ alive
    /\ it \in Items \ queued
    /\ k \in Keys
    /\ Store(set_key(Mem, it, k))
    /\ staged' = [staged EXCEPT ![it] = <<k>>]
    /\ last' = Call("set_key", it, nullptr)
    /\ UNCHANGED <<queued, log, popped, more>>

\* appendleft_direct(it):
\*   assert(static_cast<Int>(it.data.second) > offset)   fails: abort
\*   appendleft(it, Int(it.data.second)) stores the key and raises max, then
\*   indexes bucket[it.data.second]: past the end of the vector the behaviour
\*   is undefined (the item's links receive arbitrary values)
CallAppendleftDirect(it) ==
    /\ alive
    /\ it \in Items \ queued
    /\ staged[it] # <<>>
    /\ LET k   == ToInt(key[it])
           idx == ToUInt(k - offset)
       IN  \/ /\ ~(k > offset)
              /\ last' = Fail("appendleft_direct", it, "abort")
              /\ UNCHANGED <<a, b, offset, high, max, next, prev, key, queued>>
           \/ /\ k > offset
              /\ idx \in 0..high
              /\ Store(appendleft_direct(Mem, it))
              /\ queued' = queued \cup {it}
              /\ last' = Call("appendleft_direct", it, nullptr)
           \/ /\ k > offset
              /\ idx \notin 0..high
              /\ \E x, y \in DOMAIN next :
                    /\ next' = [next EXCEPT ![it] = x]
                    /\ prev' = [prev EXCEPT ![it] = y]
              /\ key' = [key EXCEPT ![it] = idx]
              /\ max' = IF max < idx THEN idx ELSE max
              /\ last' = Fail("appendleft_direct", it, "undefined")
              /\ UNCHANGED <<a, b, offset, high, queued>>
    /\ UNCHANGED hist

DirectSetKey == \E it \in Items, k \in (-MaxNegA)..(MaxA + MaxSpan) : CallSetKey(it, k)
DirectAppendleft == \E it \in Items : CallAppendleftDirect(it)
DirectPopleft ==
    /\ CallPopleft
    /\ staged' = [staged EXCEPT ![last'.ret] = <<>>]
    /\ UNCHANGED <<log, popped, more>>
DirectDetach ==
    \E it \in Items :
        /\ CallDetach(it)
        /\ staged' = [staged EXCEPT ![it] = <<>>]
        /\ UNCHANGED <<log, popped, more>>

NextDirect ==
    \/ DirectSetKey
    \/ DirectAppendleft
    \/ DirectPopleft
    \/ DirectDetach

SpecDirect == Init /\ [][NextDirect]_vars

\* ------------------------------------------------------------ detach, then append
\* The caller notes the node's external key, the queued set and get_max(),
\* detaches the node, and appends it again with the key it noted.
RoundDetach ==
    \E it \in Items :
        /\ CallDetach(it)
        /\ snap' = <<[it |-> it, k |-> offset + ToInt(key[it]), skey |-> key[it],
                      members |-> queued, gmax |-> get_max(Mem)]>>
        /\ UNCHANGED <<log, popped, staged, others>>

RoundAppend ==
    /\ snap # <<>>
    /\ last.op = "detach"
    /\ CallAppend(snap[1].it, snap[1].k)
    /\ UNCHANGED hist

\* any other call ends the round trip
RoundInsert ==
    /\ \E it \in Items, k \in (-MaxNegA)..(MaxA + MaxSpan) :
          CallAppend(it, k) \/ CallAppendleft(it, k)
    /\ snap' = <<>>
    /\ UNCHANGED <<log, popped, staged, others>>

RoundModifyKey ==
    /\ \E it \in Items, d \in (-MaxSpan)..MaxSpan : CallModifyKey(it, d)
    /\ snap' = <<>>
    /\ UNCHANGED <<log, popped, staged, others>>

RoundPopleft ==
    /\ CallPopleft
    /\ snap' = <<>>
    /\ UNCHANGED <<log, popped, staged, others>>

NextRound ==
    \/ RoundDetach
    \/ RoundAppend
    \/ RoundInsert
    \/ RoundModifyKey
    \/ RoundPopleft

SpecRound == Init /\ [][NextRound]_vars

\* ------------------------------------------------------------ checked build
\* Calls whose arguments need not meet the documented preconditions, in a
\* build with assert enabled.  A call returns, aborts at a failed assert, or
\* runs into undefined behaviour.

\* variant: lock that makes the node self-contained
lock_both(M, n) == [M EXCEPT !.next[n] = n, !.prev[n] = n]
\* Dllink::lock
lock(M, n) == [M EXCEPT !.next[n] = n]

\* what undefined behaviour can leave behind: an insertion through
\* bucket[key] past the end of the vector gives the item's links arbitrary
\* values; the scan  while (bucket[max].is_empty()) max -= 1  past the end of
\* the vector stops at some index outside 0..high
Undefined(M, it) ==
    IF it \in Items
    THEN /\ \E x, y \in DOMAIN M.next :
              /\ next' = [M.next EXCEPT ![it] = x]
              /\ prev' = [M.prev EXCEPT ![it] = y]
         /\ key' = M.key
         /\ max' = M.max
         /\ UNCHANGED <<a, b, offset, high>>
    ELSE \E m \in {high + 1, M.max} : Store([M EXCEPT !.max = m])

\* call o leaves memory M: it returned, or stopped at a failed assert
Finish(M, o, it, ret, q) ==
    \/ /\ ~M.fail
       /\ Store(M)
       /\ queued' = q
       /\ last' = Call(o, it, ret)
    \/ /\ M.fail
       /\ Store(M)
       /\ UNCHANGED queued
       /\ last' = Fail(o, it, "abort")

\* the same for a call that can index the bucket vector past its end
Outcome(M, o, it, ret, q) ==
    \/ /\ Ok(M)
       /\ Finish(M, o, it, ret, q)
    \/ /\ M.fail
       /\ Finish(M, o, it, ret, q)
    \/ /\ M.ub /\ ~M.fail
       /\ Undefined(M, it)
       /\ UNCHANGED queued
       /\ last' = Fail(o, it, "undefined")

\* items outside the queue whose next points to themselves (after lock(), or
\* never inserted)
Locked == {n \in Items \ queued : is_locked(Mem, n)}

KeyArgs   == (-MaxNegA - 1)..(MaxA + MaxSpan)
DeltaArgs == (0..(MaxSpan + 1)) \cup {UIntModulus - 1}

CheckedLock(it) ==
    /\ alive
    /\ it \in Items \ queued
    /\ Finish(lock(Mem, it), "lock", it, nullptr, queued)

CheckedAppend(it, k) ==
    /\ alive
    /\ it \in Items \ queued
    /\ Outcome(append(Mem, it, k), "append", it, nullptr, queued \cup {it})

CheckedAppendleft(it, k) ==
    /\ alive
    /\ it \in Items \ queued
    /\ Outcome(appendleft(Mem, it, k), "appendleft", it, nullptr, queued \cup {it})

CheckedPopleft ==
    /\ alive
    /\ LET r == popleft(Mem)
       IN  Outcome(r[1], "popleft", nullptr, r[2], queued \ {r[2]})

CheckedIncreaseKey(it, delta) ==
    /\ alive
    /\ it \in queued \cup Locked
    /\ Finish(increase_key(Mem, it, delta), "increase_key", it, nullptr, queued)

CheckedDecreaseKey(it, delta) ==
    /\ alive
    /\ it \in queued \cup Locked
    /\ Finish(decrease_key(Mem, it, delta), "decrease_key", it, nullptr, queued)

CheckedModifyKey(it, delta) ==
    /\ alive
    /\ it \in queued \cup Locked
    /\ Finish(modify_key(Mem, it, delta), "modify_key", it, nullptr, queued)

CheckedDetach(it) ==
    /\ alive
    /\ it \in queued \cup Locked
    /\ Finish(detach(Mem, it), "detach", it, nullptr, queued \ {it})

\* Dllink::detach called on the node itself
CheckedLinkDetach(it) ==
    /\ alive
    /\ it \in Locked
    /\ Finish(Dllink_detach(Mem, it), "Dllink::detach", it, nullptr, queued)

\* Locked nodes: items outside the queue are locked, and every key change and
\* both detach methods are called on locked nodes.
LockItem       == \E it \in Items : CheckedLock(it) /\ UNCHANGED hist
LockedModify   ==
    \E it \in Locked, d \in (-MaxSpan - 1)..(MaxSpan + 1) : CheckedModifyKey(it, d) /\ UNCHANGED hist
LockedIncrease == \E it \in Locked, d \in DeltaArgs : CheckedIncreaseKey(it, d) /\ UNCHANGED hist
LockedDecrease == \E it \in Locked, d \in DeltaArgs : CheckedDecreaseKey(it, d) /\ UNCHANGED hist
LockedDetach   == \E it \in Locked : CheckedDetach(it) /\ UNCHANGED hist
LinkDetach     == \E it \in Locked : CheckedLinkDetach(it) /\ UNCHANGED hist

NextLock ==
    \/ OpAppend
    \/ OpPopleft
    \/ OpModifyKey
    \/ LockItem
    \/ LockedModify
    \/ LockedIncrease
    \/ LockedDecrease
    \/ LockedDetach
    \/ LinkDetach

SpecLock == Init /\ [][NextLock]_vars

\* Key changes of queued nodes by any delta.
IncreaseAny == \E it \in queued, d \in DeltaArgs : CheckedIncreaseKey(it, d) /\ UNCHANGED hist
DecreaseAny == \E it \in queued, d \in DeltaArgs : CheckedDecreaseKey(it, d) /\ UNCHANGED hist

NextRange ==
    \/ OpAppend
    \/ OpPopleft
    \/ IncreaseAny
    \/ DecreaseAny

SpecRange == Init /\ [][NextRange]_vars

\* Any key for append and appendleft, and popleft in any state.
AppendAny     == \E it \in Items, k \in KeyArgs : CheckedAppend(it, k) /\ UNCHANGED hist
AppendleftAny == \E it \in Items, k \in KeyArgs : CheckedAppendleft(it, k) /\ UNCHANGED hist
PopleftAny    == CheckedPopleft /\ UNCHANGED hist

NextArgs ==
    \/ AppendAny
    \/ AppendleftAny
    \/ PopleftAny

SpecArgs == Init /\ [][NextArgs]_vars

\* ------------------------------------------------------------ lock in any state
\* Scenario: lock() on any item, queued or not, in a checked build.  log holds
\* the items locked since they were last inserted (or constructed), popped
\* the items that have been inserted at least once.  A queue with a locked
\* member is left alone: the caller goes on with the queue only while no
\* queued item is locked.
Intact == Range(log) \cap queued = {}
\* the items of S in ascending order
RECURSIVE Ascending(_)
Ascending(S) ==
    IF S = {} THEN <<>>
    ELSE LET m == CHOOSE x \in S : \A y \in S : x <= y
         IN  <<m>> \o Ascending(S \ {m})

AnyLock ==
    \E it \in Items :
        /\ alive
        /\ Finish(lock(Mem, it), "lock", it, nullptr, queued)
        /\ log' = Ascending(Range(log) \cup {it})
        /\ UNCHANGED <<popped, staged, more>>

AnyAppend ==
    \E it \in Items, k \in (-MaxNegA)..(MaxA + MaxSpan) :
        /\ Intact
        /\ CallAppend(it, k)
        /\ log' = Remove(log, it)
        /\ popped' = Ascending(Range(popped) \cup {it})
        /\ UNCHANGED <<staged, more>>

AnyPopleft ==
    /\ Intact
    /\ queued # {}
    /\ CheckedPopleft
    /\ UNCHANGED hist

AnyDetach ==
    \E it \in queued :
        /\ Intact
        /\ CheckedDetach(it)
        /\ UNCHANGED hist

NextAnyLock ==
    \/ AnyLock
    \/ AnyAppend
    \/ AnyPopleft
    \/ AnyDetach

SpecAnyLock == Init /\ [][NextAnyLock]_vars

\* ------------------------------------------------------------ two queues
\* Scenario: a second queue bpq2 with the same key range, over the same
\* items.  Its bucket heads and sentinel live at addresses of their own; an
\* item has one pair of links whichever queue holds it.
sentinel2 == -100
Swap(x) == IF x > 0 THEN x ELSE IF x > sentinel2 THEN x + sentinel2 ELSE x - sentinel2

\* the memory with the roles of the two queues exchanged: the methods act on
\* bpq2 when applied to Other(Mem, q2.max)
Other(M, mx) ==
    [next |-> [x \in {Swap(y) : y \in DOMAIN M.next} |-> Swap(M.next[Swap(x)])],
     prev |-> [x \in {Swap(y) : y \in DOMAIN M.prev} |-> Swap(M.prev[Swap(x)])],
     key  |-> [x \in {Swap(y) : y \in DOMAIN M.key} |-> M.key[Swap(x)]],
     max  |-> mx, fail |-> M.fail, ub |-> M.ub]
Mem2 == Other(Mem, q2.max)

\* BPQueue bpq1{a, b}; BPQueue bpq2{a, b};
InitTwo ==
    /\ a \in (-MaxNegA)..MaxA
    /\ b \in a..(a + MaxSpan - 1)
    /\ LET q  == BPQueue(a, b)
           L  == DOMAIN q.mem.next \cup {Swap(x) : x \in DOMAIN q.mem.next}
           M0 == [q.mem EXCEPT
                    !.next = [x \in L |-> IF x \in DOMAIN q.mem.next THEN q.mem.next[x] ELSE x],
                    !.prev = [x \in L |-> IF x \in DOMAIN q.mem.prev THEN q.mem.prev[x] ELSE x],
                    !.key  = [x \in Items \cup {sentinel, sentinel2} |-> 0]]
           M1 == Other(Dllist_appendleft(Other(M0, 0), 0, sentinel), 0)
       IN
        /\ offset = q.offset
        /\ high = q.high
        /\ max = M1.max
        /\ next = M1.next
        /\ prev = M1.prev
        /\ key = M1.key
    /\ queued = {}
    /\ last = Call("construct", nullptr, nullptr)
    /\ log = <<>>
    /\ popped = <<>>
    /\ staged = [n \in Items |-> <<>>]
    /\ snap = <<>>
    /\ q2 = [max |-> 0, queued |-> {}, want |-> <<>>]
    /\ robin = <<>>
    /\ arr = <<>>

\* a call on bpq2 that leaves R (seen from bpq2) with bpq2's items qd and
\* their external keys w
Store2(R, qd, w) ==
    /\ Store(Other(R, max))
    /\ q2' = [max |-> R.max, queued |-> qd, want |-> [n \in qd |-> w[n]]]
    /\ UNCHANGED <<queued, log, popped, staged, snap, robin, arr>>

\* the node a popleft or detach on bpq1 has just handed to the caller, and
\* the node a popleft on bpq2 has
InHand ==
    IF last.op = "popleft" THEN {last.ret}
    ELSE IF last.op = "detach" THEN {last.it}
    ELSE {}
InHand2 == IF last.op = "bpq2.popleft" THEN {last.ret} ELSE {}
Idle == InHand = {} /\ InHand2 = {}

\* bpq1 receives fresh items and the nodes taken from bpq2; a node taken from
\* one queue is put into the other before anything else is done
TwoAppend1 ==
    /\ InHand = {}
    /\ \E it \in Items \ q2.queued, k \in KeyArgs :
          /\ IF InHand2 = {} THEN is_locked(Mem, it) ELSE it \in InHand2
          /\ CallAppend(it, k)
    /\ UNCHANGED hist
TwoPopleft1 == Idle /\ CallPopleft /\ UNCHANGED hist
TwoDetach1  == Idle /\ (\E it \in Items : CallDetach(it)) /\ UNCHANGED hist

TwoAppend2 ==
    \E it \in InHand, k \in Keys :
        /\ alive
        /\ Store2(append(Mem2, it, k), q2.queued \cup {it}, (it :> k) @@ q2.want)
        /\ last' = Call("bpq2.append", it, nullptr)

TwoAppendleft2 ==
    \E it \in InHand, k \in Keys :
        /\ alive
        /\ Store2(appendleft(Mem2, it, k), q2.queued \cup {it}, (it :> k) @@ q2.want)
        /\ last' = Call("bpq2.appendleft", it, nullptr)

TwoModifyKey2 ==
    \E it \in q2.queued, d \in (-MaxSpan)..MaxSpan :
        /\ alive
        /\ Idle
        /\ key[it] + d > 0
        /\ key[it] + d <= high
        /\ Store2(modify_key(Mem2, it, d), q2.queued, (it :> q2.want[it] + d) @@ q2.want)
        /\ last' = Call("bpq2.modify_key", it, nullptr)

TwoPopleft2 ==
    /\ alive
    /\ Idle
    /\ q2.queued # {}
    /\ LET r == popleft(Mem2) IN
        /\ Store2(r[1], q2.queued \ {r[2]}, q2.want)
        /\ last' = Call("bpq2.popleft", nullptr, r[2])

NextTwo ==
    \/ TwoAppend1
    \/ TwoPopleft1
    \/ TwoDetach1
    \/ TwoAppend2
    \/ TwoAppendleft2
    \/ TwoModifyKey2
    \/ TwoPopleft2

SpecTwo == InitTwo /\ [][NextTwo]_vars

\* ------------------------------------------------------------ consuming iteration
\* Scenario: for (it = begin(); it != end(); ) { detach(*it); ++it; }
\* snap holds the loop's state: the iterator, the nodes detached so far, the
\* set queued when the loop began, and whether the iterator's node is still
\* to be detached (at) or has just been.
ConsumeFill ==
    /\ snap = <<>>
    /\ \/ \E it \in Items, k \in KeyArgs : CallAppend(it, k) \/ CallAppendleft(it, k)
       \/ \E it \in Items, d \in (-MaxSpan)..MaxSpan : CallModifyKey(it, d)
       \/ CallPopleft
    /\ UNCHANGED hist

ConsumeBegin ==
    /\ alive
    /\ snap = <<>>
    /\ snap' = <<[itr |-> begin(Mem), seen |-> <<>>, start |-> queued, at |-> TRUE]>>
    /\ last' = Call("begin", nullptr, nullptr)
    /\ UNCHANGED <<a, b, offset, high, max, next, prev, key, queued, log, popped, staged, others>>

ConsumeDetach ==
    /\ snap # <<>>
    /\ snap[1].at
    /\ ~IterEq(snap[1].itr, end(Mem))
    /\ CallDetach(snap[1].itr.curitem)
    /\ snap' = <<[snap[1] EXCEPT !.seen = Append(@, snap[1].itr.curitem), !.at = FALSE]>>
    /\ UNCHANGED <<log, popped, staged, others>>

ConsumeInc ==
    /\ alive
    /\ snap # <<>>
    /\ ~snap[1].at
    /\ snap' = <<[snap[1] EXCEPT !.itr = IterInc(Mem, @), !.at = TRUE]>>
    /\ last' = Call("operator++", nullptr, nullptr)
    /\ UNCHANGED <<a, b, offset, high, max, next, prev, key, queued, log, popped, staged, others>>

\* the loop has ended
ConsumeEnd ==
    /\ alive
    /\ snap # <<>>
    /\ snap[1].at
    /\ IterEq(snap[1].itr, end(Mem))
    /\ snap' = <<>>
    /\ last' = Call("end", nullptr, nullptr)
    /\ UNCHANGED <<a, b, offset, high, max, next, prev, key, queued, log, popped, staged, others>>

NextConsume ==
    \/ ConsumeFill
    \/ ConsumeBegin
    \/ ConsumeDetach
    \/ ConsumeInc
    \/ ConsumeEnd

SpecConsume == Init /\ [][NextConsume]_vars

\* ------------------------------------------------------------ Dllists alone
\* Scenario: NumLists Dllists (list l has the head head(l)) and the items, no
\* BPQueue: the BPQueue fields stay 0.  queued is the set of members of the
\* lists and log[l] the abstract sequence list l stands for.
Lists == 0..(NumLists - 1)

InitList ==
    /\ a = 0 /\ b = 0 /\ offset = 0 /\ high = 0 /\ max = 0
    /\ next = [n \in {head(l) : l \in Lists} \cup Items |-> n]
    /\ prev = [n \in {head(l) : l \in Lists} \cup Items |-> n]
    /\ key = [n \in Items |-> 0]
    /\ queued = {}
    /\ last = Call("construct", nullptr, nullptr)
    /\ log = [l \in Lists |-> <<>>]
    /\ popped = <<>>
    /\ staged = [n \in Items |-> <<>>]
    /\ snap = <<>>
    /\ q2 = [max |-> 0, queued |-> {}, want |-> <<>>]
    /\ robin = <<>>
    /\ arr = <<>>

ListAppendleft ==
    \E l \in Lists, it \in Items \ queued :
        /\ Store(Dllist_appendleft(Mem, l, it))
        /\ queued' = queued \cup {it}
        /\ log' = [log EXCEPT ![l] = <<it>> \o @]
        /\ last' = Call("Dllist::appendleft", it, nullptr)
        /\ UNCHANGED <<popped, staged, more>>

ListAppend ==
    \E l \in Lists, it \in Items \ queued :
        /\ Store(Dllist_append(Mem, l, it))
        /\ queued' = queued \cup {it}
        /\ log' = [log EXCEPT ![l] = Append(@, it)]
        /\ last' = Call("Dllist::append", it, nullptr)
        /\ UNCHANGED <<popped, staged, more>>

ListPopleft ==
    \E l \in Lists :
        /\ log[l] # <<>>
        /\ LET r == Dllist_popleft(Mem, l) IN
            /\ Store(r[1])
            /\ queued' = queued \ {r[2]}
            /\ last' = Call("Dllist::popleft", nullptr, r[2])
        /\ log' = [log EXCEPT ![l] = Tail(@)]
        /\ UNCHANGED <<popped, staged, more>>

ListPop ==
    \E l \in Lists :
        /\ log[l] # <<>>
        /\ LET r == Dllist_pop(Mem, l) IN
            /\ Store(r[1])
            /\ queued' = queued \ {r[2]}
            /\ last' = Call("Dllist::pop", nullptr, r[2])
        /\ log' = [log EXCEPT ![l] = SubSeq(@, 1, Len(@) - 1)]
        /\ UNCHANGED <<popped, staged, more>>

ListDetach ==
    \E it \in queued :
        /\ Store(Dllink_detach(Mem, it))
        /\ queued' = queued \ {it}
        /\ log' = [l \in Lists |-> Remove(log[l], it)]
        /\ last' = Call("Dllink::detach", it, nullptr)
        /\ UNCHANGED <<popped, staged, more>>

NextList ==
    \/ ListAppendleft
    \/ ListAppend
    \/ ListPopleft
    \/ ListPop
    \/ ListDetach

SpecList == InitList /\ [][NextList]_vars

\* ------------------------------------------------------------ Robin
\* the scenarios without a BPQueue or Dllist leave their variables empty
NoQueue ==
    /\ a = 0 /\ b = 0 /\ offset = 0 /\ high = 0 /\ max = 0
    /\ next = <<>> /\ prev = <<>> /\ key = <<>>
    /\ queued = {}
    /\ last = Call("construct", nullptr, nullptr)
    /\ log = <<>> /\ popped = <<>> /\ staged = <<>> /\ snap = <<>>
    /\ q2 = [max |-> 0, queued |-> {}, want |-> <<>>]

\* Robin::Robin(num_parts): cycle is a vector of num_parts nodes [next, key];
\* the loop  for i: cycle[i].key = i; slptr->next = &cycle[i]; slptr = slptr->next
\* starts with slptr = &cycle.back().  A node's address is its index.
RECURSIVE RobinLoop(_, _, _, _)
RobinLoop(cycle, slptr, i, num_parts) ==
    IF i = num_parts THEN cycle
    ELSE LET c1 == [cycle EXCEPT ![i].key = i]
             c2 == [c1 EXCEPT ![slptr].next = i]
         IN  RobinLoop(c2, c2[slptr].next, i + 1, num_parts)
\* variant: a constructor that links every part to the part before it
Robin_reversed(num_parts) ==
    [i \in 0..(num_parts - 1) |->
        [next |-> (i + num_parts - 1) % num_parts, key |-> i]]
Robin(num_parts) ==
    RobinLoop([i \in 0..(num_parts - 1) |-> [next |-> nullptr, key |-> 0]],
              num_parts - 1, 0, num_parts)

\* Robin::exclude(from_part): the wrapper holds &cycle[from_part]
exclude(cycle, from_part) == [node |-> from_part]
\* variant: begin() at the wrapper's node itself
RobinBegin_atnode(cycle, w) == w.node
\* RobinIterableWrapper::begin and ::end; RobinIterator::operator++ and operator*
RobinBegin(cycle, w) == cycle[w.node].next
RobinEnd(cycle, w)   == w.node
RobinInc(cycle, cur) == cycle[cur].next
RobinDeref(cycle, cur) == cycle[cur].key

\* robin = [n, cycle, loop]; loop is <<>> or <<[from, cur, stop, seen]>> for
\* the running  for (auto i : rr.exclude(from))
InitRobin ==
    /\ NoQueue
    /\ arr = <<>>
    /\ \E n \in 1..MaxParts : robin = [n |-> n, cycle |-> Robin(n), loop |-> <<>>]

RobinExclude ==
    \E k \in 0..(robin.n - 1) :
        /\ robin.loop = <<>>
        /\ LET w == exclude(robin.cycle, k) IN
            robin' = [robin EXCEPT !.loop = <<[from |-> k, cur |-> RobinBegin(robin.cycle, w),
                                               stop |-> RobinEnd(robin.cycle, w), seen |-> <<>>]>>]
        /\ UNCHANGED <<a, b, offset, high, max, next, prev, key, queued, last,
                       log, popped, staged, snap, q2, arr>>

\* one round of the loop: it != end(), i = *it, ++it
RobinStep ==
    /\ robin.loop # <<>>
    /\ robin.loop[1].cur # robin.loop[1].stop
    /\ robin' = [robin EXCEPT
                    !.loop[1].seen = Append(@, RobinDeref(robin.cycle, robin.loop[1].cur)),
                    !.loop[1].cur = RobinInc(robin.cycle, @)]
    /\ UNCHANGED <<a, b, offset, high, max, next, prev, key, queued, last,
                   log, popped, staged, snap, q2, arr>>

\* the loop has ended: it == end()
RobinDone ==
    /\ robin.loop # <<>>
    /\ robin.loop[1].cur = robin.loop[1].stop
    /\ robin' = [robin EXCEPT !.loop = <<>>]
    /\ UNCHANGED <<a, b, offset, high, max, next, prev, key, queued, last,
                   log, popped, staged, snap, q2, arr>>

NextRobin ==
    \/ RobinExclude
    \/ RobinStep
    \/ RobinDone

SpecRobin == InitRobin /\ [][NextRobin]_vars

\* ------------------------------------------------------------ set_key on any node
\* Scenario: set_key(item, k), with k in [a, b], on an item that is queued or
\* not.  On a queued item it leaves the item in its bucket with another stored
\* key; the caller calls the other operations only while every queued item's
\* stored key is the index of the bucket that holds it.
\* as in the test, the range starts below 0 and the key set may be 0
InitSetKey == Init /\ a = -MaxNegA

CallSetKeyAny(it, k) ==
    /\ alive
    /\ k \in Keys
    /\ Store(set_key(Mem, it, k))
    /\ last' = Call("set_key", it, nullptr)
    /\ UNCHANGED queued

InPlace == \A it \in queued : it \in Range(Bucket(Mem, key[it]))

SetKeyAny ==
    \E it \in Items, k \in (-MaxNegA)..(MaxA + MaxSpan) :
        CallSetKeyAny(it, k) /\ UNCHANGED hist
PlacedAppend     == InPlace /\ OpAppend
PlacedPopleft    == InPlace /\ OpPopleft

NextSetKey ==
    \/ SetKeyAny
    \/ PlacedAppend
    \/ PlacedPopleft

SpecSetKey == InitSetKey /\ [][NextSetKey]_vars

\* ------------------------------------------------------------ ShiftArray
\* A ShiftArray is the record [start, lst]: _start and the vector _lst, a
\* function from the positions 0..size-1 to the elements.
Values == 0..1
Vectors == UNION {[0..(len - 1) -> Values] : len \in 0..MaxLen}
VecSize(lst) == Cardinality(DOMAIN lst)

\* ShiftArray(lst): _start = 0 and a copy of the vector
ShiftArray(lst) == [start |-> 0, lst |-> lst]
\* set_start throws, and assigns nothing, when start > _lst.size()
set_start_throws(A, start) == start > VecSize(A.lst)
set_start(A, start) ==
    IF set_start_throws(A, start) THEN A ELSE [A EXCEPT !.start = start]
\* variant: the key is used as the position
ShiftArray_at_unshifted(A, k) == k
\* operator[]: the position of _lst the returned reference refers to.  The
\* subtraction is of size_t: a key below _start wraps to a position far past
\* the end, here a position outside the vector just the same.
ShiftArray_at(A, k) == k - A.start

\* the keys a caller may pass
ShiftKeys == 0..(2 * MaxLen + 1)

\* arr = [obj, shift, op, key, res]: the array, the argument of the last
\* set_start that returned (0 before any), and the last call with its key and
\* the value read or written
InitShift ==
    /\ NoQueue
    /\ robin = <<>>
    /\ \E lst \in Vectors :
        arr = [obj |-> ShiftArray(lst), shift |-> 0, op |-> "construct",
               key |-> 0, res |-> 0]

ShiftSetStart ==
    \E s \in 0..(MaxLen + 1) :
        /\ arr.op # "undefined"
        /\ arr' = IF set_start_throws(arr.obj, s)
                  THEN [arr EXCEPT !.op = "throw", !.key = s, !.res = 0]
                  ELSE [arr EXCEPT !.obj = set_start(arr.obj, s), !.shift = s,
                                   !.op = "set_start", !.key = s, !.res = 0]
        /\ UNCHANGED <<a, b, offset, high, max, next, prev, key, queued, last,
                       log, popped, staged, snap, q2, robin>>

\* x = arr[k]; a position outside the vector is undefined behaviour: any
\* value may come back
ShiftRead ==
    \E k \in ShiftKeys :
        /\ arr.op # "undefined"
        /\ LET pos == ShiftArray_at(arr.obj, k) IN
            IF pos \in DOMAIN arr.obj.lst
            THEN arr' = [arr EXCEPT !.op = "read", !.key = k,
                                    !.res = arr.obj.lst[pos]]
            ELSE \E v \in Values :
                    arr' = [arr EXCEPT !.op = "undefined", !.key = k, !.res = v]
        /\ UNCHANGED <<a, b, offset, high, max, next, prev, key, queued, last,
                       log, popped, staged, snap, q2, robin>>

\* arr[k] = v through the non-const operator[]
ShiftWrite ==
    \E k \in ShiftKeys, v \in Values :
        /\ arr.op # "undefined"
        /\ LET pos == ShiftArray_at(arr.obj, k) IN
            IF pos \in DOMAIN arr.obj.lst
            THEN arr' = [arr EXCEPT !.obj.lst[pos] = v, !.op = "write",
                                    !.key = k, !.res = v]
            ELSE arr' = [arr EXCEPT !.op = "undefined", !.key = k, !.res = v]
        /\ UNCHANGED <<a, b, offset, high, max, next, prev, key, queued, last,
                       log, popped, staged, snap, q2, robin>>

NextShift ==
    \/ ShiftSetStart
    \/ ShiftRead
    \/ ShiftWrite

SpecShift == InitShift /\ [][NextShift]_vars

\* ------------------------------------------------------------ properties
\* the memory after the step
MemNext == [next |-> next', prev |-> prev', key |-> key', max |-> max',
            fail |-> FALSE, ub |-> FALSE]
DrainNext == Drain(MemNext, NumItems + 1)

\* C1: max = 0 exactly when no item is queued; otherwise bucket[max] is
\* non-empty and every bucket above max is empty.
C1_MaxIsHighestOccupied ==
    /\ (max = 0) <=> (queued = {})
    /\ max # 0 =>
        /\ max \in 1..high
        /\ ~Dllist_is_empty(Mem, max)
        /\ \A i \in (max + 1)..high : Dllist_is_empty(Mem, i)
\* a detach emptied bucket 3 and the scan passed the empty bucket 2
C1_Witness ==
    /\ last.op = "detach" /\ key[last.it] = 3
    /\ max = 1 /\ queued # {}

\* C2: every queued item's stored key is the index of the bucket that holds
\* it, and that index lies in 1..high.
C2_KeyIsBucketIndex ==
    /\ \A n \in queued :
        /\ key[n] \in 1..high
        /\ n \in Range(Bucket(Mem, key[n]))
    /\ \A i \in 1..high : \A n \in Range(Bucket(Mem, i)) : n \in queued /\ key[n] = i
C2_Witness ==
    /\ last.op = "increase_key" /\ queued = Items
    /\ key[last.it] = high /\ \E n \in Items : key[n] = 1

\* C3: a fresh queue is empty with get_max() = a - 1, and always is_empty()
\* holds exactly when get_max() = a - 1, a value outside [a, b].
C3_EmptyIffMaxBelowRange ==
    /\ last.op = "construct" => is_empty(Mem) /\ get_max(Mem) = a - 1
    /\ is_empty(Mem) <=> get_max(Mem) = a - 1
    /\ is_empty(Mem) => get_max(Mem) \notin a..b
    /\ is_empty(Mem) <=> queued = {}
C3_Witness ==
    /\ last.op = "popleft" /\ is_empty(Mem) /\ get_max(Mem) = a - 1 /\ a < b

\* C4: on a non-empty queue get_max() is the largest external key
\* (stored key + offset) among the queued items.
C4_GetMaxIsLargestKey ==
    queued # {} => get_max(Mem) = SetMax({ToInt(key[n]) + offset : n \in queued})
\* the item that held the maximum was decreased below the other item
C4_Witness ==
    /\ last.op = "decrease_key" /\ queued = Items
    /\ key[last.it] < max /\ max < high

\* C10: the number of nodes the iterator visits from begin() to end() is the
\* number of items appended and not yet detached or popped.
C10_IterCountsQueued ==
    Len(IterSeq(Mem)) = Cardinality(queued)
\* two items in buckets 3 and 1 (bucket 2 empty in between), after a key change
C10_Witness ==
    /\ last.op = "modify_key" /\ queued = Items
    /\ {key[n] : n \in Items} = {1, 3}
    /\ Len(IterSeq(Mem)) = 2

\* C5: after append/appendleft calls on distinct items, popleft() until empty
\* returns the items in non-increasing key order; among equal keys, appended
\* items come out in insertion order and appendleft'ed items in reverse
\* insertion order.
C5_PopOrder ==
    /\ \A i \in 1..Len(popped) : \E j \in 1..Len(log) : log[j][1] = popped[i]
    /\ \A i, j \in 1..Len(popped) : i < j =>
        LET x == popped[i]
            y == popped[j]
        IN  /\ LogKey(x) >= LogKey(y)
            /\ (LogKey(x) = LogKey(y) /\ LogSide(x) = "append" /\ LogSide(y) = "append")
                    => LogPos(x) < LogPos(y)
            /\ (LogKey(x) = LogKey(y) /\ LogSide(x) = "appendleft" /\ LogSide(y) = "appendleft")
                    => LogPos(x) > LogPos(y)
    /\ (popped # <<>> /\ queued = {}) => Len(popped) = Len(log)
\* two items appended with the same key have both been popped
C5_Witness ==
    /\ last.op = "popleft" /\ queued = {} /\ Len(popped) = 2
    /\ log[1][2] = log[2][2]
    /\ log[1][3] = "append" /\ log[2][3] = "append"
    /\ popped = <<log[1][1], log[2][1]>>

\* C6: popleft() returns the front node of bucket[max]; that node is then in no
\* bucket, every other node keeps its bucket and relative order, and max
\* becomes the highest remaining non-empty bucket (0 if none).
C6_PopleftTakesFront ==
    [][last'.op = "popleft" =>
        /\ Bucket(Mem, max) # <<>>
        /\ LET front == Bucket(Mem, max)[1]
           IN  /\ last'.ret = front
               /\ front \in Items
               /\ \A i \in 0..high : Bucket(MemNext, i) = Remove(Bucket(Mem, i), front)
               /\ \A n \in Items \ {front} : key'[n] = key[n]
               /\ max' = HighestNonEmpty(MemNext)
               /\ queued' = queued \ {front}
    ]_vars
\* popleft took one of two nodes of the same bucket
C6_Witness ==
    /\ last.op = "popleft" /\ last.ret \in Items
    /\ \E n \in queued : key[n] = key[last.ret] /\ Bucket(Mem, max) = <<n>>

\* C7: decrease_key(node, delta) puts node at the back of the destination
\* bucket: it pops after every node that was already there, so nodes decreased
\* into the same bucket pop in the order in which they were decreased.
C7_DecreaseKeyFifo ==
    [][last'.op = "decrease_key" =>
        LET n   == last'.it
            dst == key'[n]
            old == Bucket(Mem, dst)
        IN  /\ Bucket(MemNext, dst) = Append(Remove(old, n), n)
            /\ \A m \in Range(old) \ {n} :
                   /\ Pos(DrainNext, m) > 0
                   /\ Pos(DrainNext, m) < Pos(DrainNext, n)
            /\ (last.op = "decrease_key" /\ last.it # n /\ key[last.it] = dst)
                   => Pos(DrainNext, last.it) < Pos(DrainNext, n)
    ]_vars
\* the decreased node stands behind the node that was already in the bucket
C7_Witness ==
    /\ last.op = "decrease_key"
    /\ \E m \in Items \ {last.it} :
          /\ Bucket(Mem, key[last.it]) = <<m, last.it>>
          /\ Drain(Mem, NumItems + 1) = <<m, last.it>>

\* C8: increase_key(node, delta) puts node at the front of the destination
\* bucket: it pops before every node that was already there, so of nodes
\* increased into the same bucket the most recently increased pops first.
C8_IncreaseKeyLifo ==
    [][last'.op = "increase_key" =>
        LET n   == last'.it
            dst == key'[n]
            old == Bucket(Mem, dst)
        IN  /\ Bucket(MemNext, dst) = <<n>> \o Remove(old, n)
            /\ \A m \in Range(old) \ {n} :
                   /\ Pos(DrainNext, n) > 0
                   /\ Pos(DrainNext, n) < Pos(DrainNext, m)
            /\ (last.op = "increase_key" /\ last.it # n /\ key[last.it] = dst)
                   => Pos(DrainNext, n) < Pos(DrainNext, last.it)
    ]_vars
\* the increased node stands before the node that was already in the bucket
C8_Witness ==
    /\ last.op = "increase_key"
    /\ \E m \in Items \ {last.it} :
          /\ Bucket(Mem, key[last.it]) = <<last.it, m>>
          /\ Drain(Mem, NumItems + 1) = <<last.it, m>>

\* C9: set_key(node, k) followed by appendleft_direct(node) inserts node at the
\* front of bucket k - offset with the key stored by set_key: the stored key is
\* still k - offset and, if the queue was empty before, get_max() = k.
C9_DirectUsesStagedKey ==
    (last.op = "appendleft_direct" /\ last.st = "ok") =>
        LET it  == last.it
            k   == staged[it][1]
            idx == k - offset
        IN  /\ key[it] = idx
            /\ Bucket(Mem, idx) # <<>>
            /\ Bucket(Mem, idx)[1] = it
            /\ queued = {it} => get_max(Mem) = k

\* the buckets hi, hi-1, .., 1 laid end to end, each front to back
RECURSIVE Flatten(_, _)
Flatten(M, hi) == IF hi = 0 THEN <<>> ELSE Bucket(M, hi) \o Flatten(M, hi - 1)

\* C11: with no mutation in between, the loop from begin() with operator++
\* reaches end() after visiting each queued node exactly once, buckets in
\* descending key order and each bucket front to back, and never yields the
\* sentinel; on an empty queue begin() equals end().
C11_IterDescendingOnce ==
    LET seq == IterSeq(Mem) IN
    /\ Len(seq) <= NumItems
    /\ seq = Flatten(Mem, high)
    /\ Range(seq) = queued
    /\ \A i, j \in 1..Len(seq) : i < j => (seq[i] # seq[j] /\ key[seq[i]] >= key[seq[j]])
    /\ sentinel \notin Range(seq)
    /\ queued = {} => IterEq(begin(Mem), end(Mem))
\* two items in different buckets below the highest one, visited larger key first
C11_Witness ==
    /\ queued = Items /\ max < high
    /\ LET seq == IterSeq(Mem) IN
        Len(seq) = 2 /\ key[seq[1]] > key[seq[2]]

\* C14: on an unlocked queued node, modify_key(node, delta) leaves the state
\* increase_key(node, delta) leaves when delta > 0, the state
\* decrease_key(node, -delta) leaves when delta < 0, and the state it found
\* when delta = 0.
C14_ModifyKeyDispatch ==
    [][\A it \in Items, d \in (-MaxSpan)..MaxSpan :
        (CallModifyKey(it, d) /\ ~is_locked(Mem, it)) =>
            MemNext = IF d > 0 THEN increase_key(Mem, it, d)
                      ELSE IF d < 0 THEN decrease_key(Mem, it, -d)
                      ELSE Mem]_vars
\* after a modify_key, the node sits behind the other one in a shared bucket
\* below max's ceiling (the place decrease_key or a zero delta leaves it)
C14_Witness ==
    /\ last.op = "modify_key" /\ queued = Items /\ max < high
    /\ \E n \in Items : Bucket(Mem, max) = <<n, last.it>>

\* the buckets, max and the key of `it` are those of M
SameQueue(M, F, it) ==
    /\ \A i \in 0..high : Bucket(M, i) = Bucket(F, i)
    /\ M.max = F.max
    /\ M.key[it] = F.key[it]

\* C20: clear() leaves the queue empty: max = 0, is_empty(), get_max() = a - 1,
\* buckets 1..high empty, begin() = end(), the sentinel alone in bucket 0; the
\* key range is kept, and an append or appendleft with a key in [a, b] then
\* gives what it gives on a freshly constructed queue.
C20_ClearEmpties ==
    last.op = "clear" =>
        /\ max = 0 /\ is_empty(Mem) /\ get_max(Mem) = a - 1
        /\ \A i \in 1..high : Bucket(Mem, i) = <<>>
        /\ IterEq(begin(Mem), end(Mem))
        /\ Bucket(Mem, 0) = <<sentinel>>
        /\ offset = a - 1 /\ high = b - offset
        /\ \A it \in Items, k \in a..b :
            /\ SameQueue(append(Mem, it, k), append(BPQueue(a, b).mem, it, k), it)
            /\ SameQueue(appendleft(Mem, it, k), appendleft(BPQueue(a, b).mem, it, k), it)
\* clear() was called with two items in different buckets (their own links
\* still point at the bucket heads)
C20_Witness ==
    /\ last.op = "clear" /\ queued = {}
    /\ key[1] # key[2]
    /\ \A n \in {1, 2} : next[n] = head(key[n]) /\ prev[n] = head(key[n])

\* C12: detach(node) followed by append(node, k), k the node's external key
\* before the detach, leaves the node in bucket k - offset with the stored
\* key, the set of queued nodes and the get_max() found before the detach.
C12_DetachAppendRoundTrip ==
    (last.op = "append" /\ snap # <<>>) =>
        LET s == snap[1] IN
        /\ last.it = s.it
        /\ s.it \in Range(Bucket(Mem, s.k - offset))
        /\ key[s.it] = s.skey
        /\ queued = s.members
        /\ Range(Flatten(Mem, high)) = s.members
        /\ get_max(Mem) = s.gmax
\* the node taken out and put back was the only one with the largest key
C12_Witness ==
    /\ last.op = "append" /\ snap # <<>>
    /\ queued = Items
    /\ snap[1].gmax = snap[1].k
    /\ \A n \in Items \ {snap[1].it} : key[n] < key[snap[1].it]

\* C13: modify_key(node, delta) on a locked node returns without a failed
\* assert and leaves every link (so every bucket's contents and order),
\* every key and max as they were, whatever delta is.
C13_LockedModifyIsNoop ==
    [][\A it \in Items, d \in (-MaxSpan - 1)..(MaxSpan + 1) :
        (CheckedModifyKey(it, d) /\ is_locked(Mem, it)) =>
            /\ last'.st = "ok"
            /\ MemNext = Mem
            /\ \A i \in 0..high : Bucket(MemNext, i) = Bucket(Mem, i)]_vars
\* modify_key has returned on a node that was queued, popped and then locked,
\* while another node is queued
C13_Witness ==
    /\ last.op = "modify_key" /\ last.st = "ok"
    /\ last.it \in Locked /\ prev[last.it] # last.it
    /\ queued # {}

\* C18: Dllink::detach, BPQueue::detach, increase_key and decrease_key on a
\* locked node stop at the assert of Dllink::detach with every link, key and
\* max as before the call; modify_key on a locked node returns.
C18_LockedNodeAborts ==
    [][/\ (last'.op \in {"Dllink::detach", "detach", "increase_key", "decrease_key"}
            /\ is_locked(Mem, last'.it)) =>
                (last'.st = "abort" /\ MemNext = Mem)
       /\ (last'.op = "modify_key" /\ is_locked(Mem, last'.it)) => last'.st = "ok"]_vars
\* decrease_key has aborted on a locked node while another node is queued
C18_Witness ==
    /\ last.op = "decrease_key" /\ last.st = "abort"
    /\ last.it \in Locked
    /\ queued # {}

\* C17: an increase_key or decrease_key of a queued node whose new internal
\* key (computed in UInt) is outside (0, high] stops at an assert: the stored
\* key is the computed one, not a clamped one, and the node is in no bucket.
C17_KeyOutOfRangeAborts ==
    [][\A it \in Items, d \in DeltaArgs :
        /\ (CheckedIncreaseKey(it, d) /\ it \in queued /\ ToUInt(key[it] + d) \notin 1..high) =>
            /\ last'.st = "abort"
            /\ key'[it] = ToUInt(key[it] + d)
            /\ \A i \in 0..high : it \notin Range(Bucket(MemNext, i))
        /\ (CheckedDecreaseKey(it, d) /\ it \in queued /\ ToUInt(key[it] - d) \notin 1..high) =>
            /\ last'.st = "abort"
            /\ key'[it] = ToUInt(key[it] - d)
            /\ \A i \in 0..high : it \notin Range(Bucket(MemNext, i))]_vars
\* decrease_key by the node's whole key has aborted with the key at 0
C17_Witness ==
    /\ last.op = "decrease_key" /\ last.st = "abort"
    /\ last.it \in queued /\ key[last.it] = 0

\* C15: popleft() on an empty queue (max = 0) stops at a failed assert, with
\* the sentinel still in bucket 0 and max unchanged.
C15_EmptyPopleftAborts ==
    [][(CheckedPopleft /\ max = 0) =>
        /\ last'.st = "abort"
        /\ Bucket(MemNext, 0) = <<sentinel>>
        /\ max' = max]_vars

\* C16: append(node, k) and appendleft(node, k) with k < a or k > b stop at a
\* failed assert before a bucket is indexed: no index outside 0..high is used.
C16_KeyOutsideRangeAborts ==
    [][\A it \in Items, k \in KeyArgs :
        ((CheckedAppend(it, k) \/ CheckedAppendleft(it, k)) /\ k \notin a..b) =>
            /\ last'.st = "abort"
            /\ MemNext = Mem]_vars

\* the bucket lists of both queues that hold node n
ListsHolding(n) ==
    {<<1, i>> : i \in {j \in 0..high : n \in Range(Bucket(Mem, j))}}
        \cup {<<2, i>> : i \in {j \in 0..high : n \in Range(Bucket(Mem2, j))}}

\* C19: with two queues and nodes moved from one to the other by popleft or
\* detach followed by append or appendleft, every node is in at most one
\* bucket list of at most one queue (the one its holder and key name); a
\* queue whose nodes have all been removed is_empty(); and the other queue's
\* get_max() is the largest of the keys given at insertion, as changed by
\* later modify_key calls.
C19_TwoQueuesShareNodes ==
    /\ queued \cap q2.queued = {}
    /\ \A n \in Items :
        ListsHolding(n) = IF n \in queued THEN {<<1, key[n]>>}
                          ELSE IF n \in q2.queued THEN {<<2, key[n]>>}
                          ELSE {}
    /\ queued = {} => is_empty(Mem)
    /\ q2.queued = {} => is_empty(Mem2)
    /\ q2.queued # {} => get_max(Mem2) = SetMax({q2.want[n] : n \in q2.queued})
\* every node has been moved from the first queue to the second, where the
\* keys differ after a modify_key
C19_Witness ==
    /\ last.op = "bpq2.modify_key"
    /\ queued = {} /\ is_empty(Mem)
    /\ q2.queued = Items
    /\ q2.want[1] # q2.want[2]

\* C21: detach(node) on a queued node removes that node and nothing else:
\* every bucket is the bucket before without the node, the other nodes keep
\* their stored keys, and max becomes the highest non-empty bucket (0 when
\* the node was the only one, so that get_max() = a - 1).
C21_DetachRemovesOnlyNode ==
    [][\A it \in Items : CallDetach(it) =>
        /\ \A i \in 0..high : Bucket(MemNext, i) = Remove(Bucket(Mem, i), it)
        /\ \A n \in Items \ {it} : key'[n] = key[n]
        /\ max' = HighestNonEmpty(MemNext)
        /\ (queued = {it}) => (max' = 0 /\ get_max(MemNext) = a - 1)]_vars
\* the node alone in the highest bucket was detached, and max dropped past an
\* empty bucket to the node that is left
C21_Witness ==
    /\ last.op = "detach" /\ Cardinality(queued) = 1
    /\ high > 2 /\ key[last.it] = high /\ max = 1
    /\ next[last.it] = head(high)

\* C22: in the loop that starts at begin(), detaches the iterator's node with
\* BPQueue::detach and then advances with operator++, the iterator is, until
\* it equals end(), at a node that is queued and not yet visited; it equals
\* end() exactly when nothing is queued any more, and then every node queued
\* at the start has been visited once and the queue is empty.
C22_ConsumingIteration ==
    snap # <<>> =>
        LET c == snap[1] IN
        /\ \A i, j \in 1..Len(c.seen) : i < j => c.seen[i] # c.seen[j]
        /\ queued = c.start \ Range(c.seen)
        /\ c.at =>
            /\ IterEq(c.itr, end(Mem)) <=> (queued = {})
            /\ ~IterEq(c.itr, end(Mem)) => c.itr.curitem \in queued
            /\ IterEq(c.itr, end(Mem)) => (Range(c.seen) = c.start /\ is_empty(Mem))
\* the loop over two queued nodes in different buckets has reached end()
C22_Witness ==
    /\ snap # <<>> /\ snap[1].at
    /\ IterEq(snap[1].itr, end(Mem))
    /\ snap[1].start = Items /\ Len(snap[1].seen) = 2
    /\ key[snap[1].seen[1]] > key[snap[1].seen[2]]
    /\ is_empty(Mem)

\* the list the step's popleft or pop was called on
PoppedFrom == CHOOSE l \in Lists : log'[l] # log[l]

\* C23: the forward traversal of a Dllist equals the abstract sequence in
\* which appendleft prepends, append adds at the end, popleft removes and
\* returns the first element and pop removes and returns the last one.
C23_DllistIsDeque ==
    [][/\ \A l \in Lists : Bucket(Mem, l) = log[l] /\ Bucket(MemNext, l) = log'[l]
       /\ last'.op = "Dllist::popleft" => last'.ret = log[PoppedFrom][1]
       /\ last'.op = "Dllist::pop" => last'.ret = log[PoppedFrom][Len(log[PoppedFrom])]]_vars
\* pop has returned the last of two elements of a list
C23_Witness ==
    /\ last.op = "Dllist::pop"
    /\ \E l \in Lists :
        /\ Len(log[l]) = 1 /\ Bucket(Mem, l) = log[l]
        /\ prev[last.ret] = log[l][1] /\ next[last.ret] = head(l)

\* C24: each list is a circular doubly linked ring: its head and every
\* member n have n.next.prev = n and n.prev.next = n; following next from the
\* head comes back to the head after passing exactly the list's members;
\* is_empty() holds exactly when the list has no member; the loop from
\* begin() to end() never yields the head.
C24_DllistIsRing ==
    /\ \A n \in {head(l) : l \in Lists} \cup queued : prev[next[n]] = n /\ next[prev[n]] = n
    /\ \A l \in Lists :
        /\ Range(Bucket(Mem, l)) = Range(log[l])
        /\ Len(Bucket(Mem, l)) = Cardinality(Range(log[l]))
        /\ Dllist_is_empty(Mem, l) <=> (log[l] = <<>>)
        /\ Dllist_end(Mem, l) \notin
              Range(Walk(next, Dllist_end(Mem, l), Dllist_begin(Mem, l), NumItems + 2))
    /\ queued = UNION {Range(Bucket(Mem, l)) : l \in Lists}
\* a member was detached from between the head and another member
C24_Witness ==
    /\ last.op = "Dllink::detach"
    /\ next[last.it] \in queued
    /\ \E l \in Lists : prev[last.it] = head(l) /\ Bucket(Mem, l) = <<next[last.it]>>

\* C25: an append or appendleft applied to a node right after lock() does not
\* make the node a member of a list, and the node stays locked.
C25_LockedNodeNotInserted ==
    [][(last.op = "lock" /\ last'.op \in {"append", "appendleft"} /\ last'.it = last.it) =>
        /\ \A i \in 0..high : last.it \notin Range(Bucket(MemNext, i))
        /\ is_locked(MemNext, last.it)]_vars

\* C26: for Robin(n), n >= 1, and every part k in 0..n-1, the loop over
\* exclude(k) ends after n - 1 rounds, having yielded every part other than
\* k once and k never.
C26_RobinExclude ==
    robin.loop # <<>> =>
        LET it == robin.loop[1] IN
        /\ it.cur \in 0..(robin.n - 1)
        /\ Len(it.seen) <= robin.n - 1
        /\ it.from \notin Range(it.seen)
        /\ \A i, j \in 1..Len(it.seen) : i < j => it.seen[i] # it.seen[j]
        /\ it.cur = it.stop =>
            /\ Len(it.seen) = robin.n - 1
            /\ Range(it.seen) = (0..(robin.n - 1)) \ {it.from}
\* the loop over exclude(2) of Robin(6) has ended with five values
C26_Witness ==
    /\ robin.loop # <<>> /\ robin.n = 6
    /\ robin.loop[1].from = 2
    /\ robin.loop[1].cur = robin.loop[1].stop
    /\ Len(robin.loop[1].seen) = 5

\* C27: after a set_start(s) that returned (s <= lst.size()), arr[key] for
\* every key with s <= key < s + lst.size() - that is every key whose
\* position key - s lies in the vector - refers to lst[key - s]: a read
\* returns that element and a write replaces that element and no other; a
\* set_start leaves the elements alone, and one that throws leaves the shift.
C27_ShiftArrayIndex ==
    [][ \A k \in ShiftKeys :
          (/\ arr.op # "undefined"
           /\ arr'.key = k
           /\ arr'.op \in {"read", "write", "undefined"}
           /\ arr.shift <= k /\ k - arr.shift \in DOMAIN arr.obj.lst)
          => /\ arr'.op \in {"read", "write"}
             /\ arr'.op = "read" =>
                 /\ arr'.res = arr.obj.lst[k - arr.shift]
                 /\ arr'.obj = arr.obj
             /\ arr'.op = "write" =>
                 /\ arr'.obj.lst = [arr.obj.lst EXCEPT ![k - arr.shift] = arr'.res]
                 /\ arr'.obj.start = arr.obj.start
             /\ arr'.shift = arr.shift ]_vars
\* as in the test: after set_start(2) on a vector of three, arr[4] read the
\* last element, which differs from the first
C27_Witness ==
    /\ arr # <<>>
    /\ arr.op = "read" /\ arr.shift = 2 /\ arr.key = 4
    /\ VecSize(arr.obj.lst) = 3
    /\ arr.res = arr.obj.lst[2] /\ arr.obj.lst[0] # arr.obj.lst[2]

\* C28: the downward scan of max in popleft, detach and decrease_key stops
\* without unsigned underflow: bucket 0 is non-empty before and after every
\* step, so the scan never indexes past the bucket vector and never
\* decrements max below 0; it ends at an index in 0..max, that is after at
\* most max decrements.
C28_ScanTerminates ==
    [][ /\ ~Dllist_is_empty(Mem, 0)
        /\ ~Dllist_is_empty(MemNext, 0)
        /\ CallPopleft =>
            /\ Ok(popleft(Mem)[1])
            /\ max' \in 0..max /\ max - max' <= max
        /\ \A it \in Items :
            CallDetach(it) =>
                /\ Ok(detach(Mem, it))
                /\ max' \in 0..max /\ max - max' <= max
        /\ \A it \in Items, d \in Deltas :
            CallDecreaseKey(it, d) =>
                /\ Ok(decrease_key(Mem, it, d))
                /\ max' \in 0..max /\ max - max' <= max ]_vars
\* a popleft took the only node out of the highest bucket of the widest
\* queue and the scan ran all the way down to bucket 0
C28_Witness ==
    /\ last.op = "popleft" /\ last.st = "ok"
    /\ high = MaxSpan /\ key[last.ret] = high
    /\ max = 0

\* C29: in every state reached by operations called within their
\* preconditions, bucket 0 holds exactly the sentinel and no item, and no
\* queued item has the stored key 0.
C29_BucketZeroIsSentinel ==
    /\ Bucket(Mem, 0) = <<sentinel>>
    /\ \A it \in Items : it \notin Range(Bucket(Mem, 0))
    /\ \A it \in queued : key[it] # 0
    /\ \A it \in Items, i \in 0..high :
        it \in Range(Bucket(Mem, i)) => key[it] # 0
\* a clear has emptied a queue that held every item
C29_Witness ==
    /\ last.op = "clear" /\ queued = {}
    /\ \A it \in Items : key[it] # 0
    /\ Bucket(Mem, 0) = <<sentinel>>

\* C30: set_key(node, k) changes only node's stored key, to k - offset: the
\* links of every node, the nodes of every bucket and their order, max and
\* every other stored key are as before, whether node is queued or not.
C30_SetKeyFrame ==
    [][ \A it \in Items, k \in (-MaxNegA)..(MaxA + MaxSpan) :
          CallSetKeyAny(it, k) =>
            /\ key'[it] = ToUInt(k - offset)
            /\ \A n \in DOMAIN key : n # it => key'[n] = key[n]
            /\ next' = next /\ prev' = prev
            /\ max' = max
            /\ \A i \in 0..high : Bucket(MemNext, i) = Bucket(Mem, i)
            /\ queued' = queued ]_vars
\* set_key gave a queued node a stored key above max: the node is still in
\* its old bucket
C30_Witness ==
    /\ last.op = "set_key" /\ last.it \in queued
    /\ key[last.it] > max
    /\ last.it \in Range(Bucket(Mem, max))

\* the step moved only node n: every other stored key is as before, and every
\* bucket holds, n left out, the nodes it held before in the same order
OnlyMoved(n) ==
    /\ \A m \in DOMAIN key : m # n => key'[m] = key[m]
    /\ \A i \in 0..high :
        Remove(Bucket(MemNext, i), n) = Remove(Bucket(Mem, i), n)
    /\ \A i \in 0..high : n \in Range(Bucket(MemNext, i)) <=> i = key'[n]

\* C31: increase_key(node, delta) adds exactly delta to node's stored key and
\* decrease_key(node, delta) subtracts exactly delta; node is then in the
\* bucket of its new key, and every other node keeps its bucket, its stored
\* key and its place among the other nodes.
C31_KeyChangeMovesOnlyNode ==
    [][ \A it \in Items, d \in Deltas :
          /\ CallIncreaseKey(it, d) =>
                /\ key'[it] = key[it] + d
                /\ OnlyMoved(it)
          /\ CallDecreaseKey(it, d) =>
                /\ key'[it] = key[it] - d
                /\ OnlyMoved(it) ]_vars
\* a decrease_key moved the node below another queued node, which is still
\* alone in its bucket
C31_Witness ==
    /\ last.op = "decrease_key" /\ last.st = "ok"
    /\ \E m \in queued \ {last.it} :
          /\ key[m] > key[last.it]
          /\ Bucket(Mem, key[m]) = <<m>>
          /\ Bucket(Mem, key[last.it]) = <<last.it>>

\* node n is queued and its stored key is the index of the bucket it is in
Placed(n) == n \in queued /\ n \in Range(Bucket(Mem, key[n]))

\* C32 as stated: for a queued node whose stored key is its bucket index,
\* a decrease_key that returns, whatever its delta, has not raised get_max()
\* and has not taken the branch that raises max, and an increase_key that
\* returns has not lowered get_max().
C32_AsStated ==
    [][ \A it \in Items, d \in DeltaArgs :
          /\ (CheckedDecreaseKey(it, d) /\ Placed(it) /\ last'.st = "ok") =>
                /\ ~(max < ToUInt(key[it] - d))
                /\ get_max(MemNext) <= get_max(Mem)
          /\ (CheckedIncreaseKey(it, d) /\ Placed(it) /\ last'.st = "ok") =>
                get_max(MemNext) >= get_max(Mem) ]_vars

\* What holds instead: the same for every decrease_key whose delta does not
\* exceed the stored key, so that the unsigned subtraction does not wrap.
C32_DecreaseWithoutWrap ==
    [][ \A it \in Items, d \in DeltaArgs :
          /\ (CheckedDecreaseKey(it, d) /\ Placed(it) /\ last'.st = "ok"
                 /\ d <= key[it]) =>
                /\ ~(max < ToUInt(key[it] - d))
                /\ get_max(MemNext) <= get_max(Mem)
          /\ (CheckedIncreaseKey(it, d) /\ Placed(it) /\ last'.st = "ok") =>
                get_max(MemNext) >= get_max(Mem) ]_vars

\* C33: in every reachable state the nodes visited by the loop from begin()
\* to end() are, in the same order, the nodes that popleft() called until the
\* queue is empty would return from that state.
C33_IterationIsPopOrder ==
    IterSeq(Mem) = Drain(Mem, NumItems + 1)
\* both items share a bucket, the higher-numbered one in front: the loop and
\* the poplefts both give it first
C33_Witness ==
    /\ queued = {1, 2} /\ \A n \in queued : key[n] = max
    /\ Bucket(Mem, max) = <<2, 1>>
    /\ IterSeq(Mem) = <<2, 1>>
    /\ Drain(Mem, NumItems + 1) = <<2, 1>>

\* the step took node n out of its list by rewriting its two neighbours'
\* links and nothing else
Spliced(n) ==
    /\ next' = [next EXCEPT ![prev[n]] = next[n]]
    /\ prev' = [prev EXCEPT ![next[n]] = prev[n]]
    /\ next'[n] = next[n] /\ prev'[n] = prev[n]

\* C34: Dllink::detach rewrites prev.next and next.prev only; the detached
\* node's own next and prev still point at its former neighbours, so the node
\* popleft() returns and the node detach() removes are not locked.
C34_DetachKeepsOwnLinks ==
    [][ /\ CallPopleft =>
            /\ Spliced(last'.ret)
            /\ ~is_locked(MemNext, last'.ret)
        /\ \A it \in Items :
            CallDetach(it) =>
                /\ Spliced(it)
                /\ ~is_locked(MemNext, it) ]_vars
\* the node popleft() returned still points at the node that was behind it
\* and at the head of its bucket
C34_Witness ==
    /\ last.op = "popleft" /\ last.st = "ok"
    /\ next[last.ret] \in queued
    /\ prev[last.ret] = head(key[last.ret])
    /\ next[head(key[last.ret])] = next[last.ret]

\* is_locked() agrees with node.next = node; a node never inserted is locked;
\* a queued node not locked since its insertion is not
LockState(M, q, lk, ins) ==
    \A n \in Items :
        /\ is_locked(M, n) <=> M.next[n] = n
        /\ (n \notin Range(ins)) => is_locked(M, n)
        /\ (n \in q /\ n \notin Range(lk)) => ~is_locked(M, n)

\* C35: is_locked(node) is true exactly when node.next = node: for a fresh
\* node that was never inserted and right after lock(), and it is false for
\* every node that is in a list and has not been locked since its insertion;
\* lock() changes node.next only, not node.prev and not a neighbour's link.
C35_LockIsSelfNext ==
    [][ /\ LockState(Mem, queued, log, popped)
        /\ LockState(MemNext, queued', log', popped')
        /\ last'.op = "lock" =>
            /\ is_locked(MemNext, last'.it)
            /\ next' = [next EXCEPT ![last'.it] = last'.it]
            /\ prev' = prev /\ key' = key /\ max' = max ]_vars
\* lock() on a queued node that stands behind another node: its predecessor
\* still points at it and it still points back
C35_Witness ==
    /\ last.op = "lock" /\ last.it \in queued
    /\ is_locked(Mem, last.it)
    /\ prev[last.it] \in queued
    /\ next[prev[last.it]] = last.it

\* C36: the constructor links part i to part (i + 1) mod n, with key i in
\* node i, and the loop over exclude(k) yields (k + 1) mod n, (k + 2) mod n,
\* ..., (k + n - 1) mod n in this order.
C36_RobinCyclicOrder ==
    /\ \A i \in 0..(robin.n - 1) :
        /\ robin.cycle[i].next = (i + 1) % robin.n
        /\ robin.cycle[i].key = i
    /\ robin.loop # <<>> =>
        LET it == robin.loop[1] IN
        /\ \A j \in 1..Len(it.seen) : it.seen[j] = (it.from + j) % robin.n
        /\ it.cur = (it.from + Len(it.seen) + 1) % robin.n
        /\ it.cur = it.stop => Len(it.seen) = robin.n - 1
\* exclude(3) of Robin(5) has yielded 4, 0, 1, 2 and reached end()
C36_Witness ==
    /\ robin.n = 5 /\ robin.loop # <<>>
    /\ robin.loop[1].from = 3
    /\ robin.loop[1].seen = <<4, 0, 1, 2>>
    /\ robin.loop[1].cur = robin.loop[1].stop
====
